---- MODULE Spec2Model ----
(***************************************************************************)
(* Model of src/speedtest.py: the probe runner (run_speed_test), the       *)
(* output parser (parse_speed_test_output), the metric writer              *)
(* (write_speed_data) and the orchestrator (main).                         *)
(*                                                                         *)
(* Text is a sequence of lexemes.  A lexeme is a label ("Latency:"), a     *)
(* unit ("ms"), a value ("12.3", "FAILED", "abc"), punctuation or one      *)
(* whitespace character (" " or "\n").  Two lexemes next to each other     *)
(* with no whitespace lexeme between them are adjacent in the text.        *)
(* Floats are integers counting tenths: 12.3 is 123 and -1.0 is -10.       *)
(***************************************************************************)
EXTENDS Integers, Sequences, FiniteSets, TLC

\* ------------------------------------------------------------------------
\* Python values.  Every value carries its type, so that a formula can ask
\* for the type before it reads the payload.

None == [type |-> "NoneType", val |-> <<>>]

Str(s) == [type |-> "str", val |-> s]

PyFloat(n) == [type |-> "float", val |-> n]

Dict(d) == [type |-> "dict", val |-> d]

IsNone(x) == x.type = "NoneType"

\* ------------------------------------------------------------------------
\* Bounds of the model.

\* A generated report deviates from the well-formed one in at most this
\* many of its four fields.
MaxFaults == 1

\* ------------------------------------------------------------------------
\* Text and the regular expressions of parse_speed_test_output.

FieldNames == {"ping", "download", "upload", "jitter"}

\* \s of the regular expressions.
IsSpace(c) == c \in {" ", "\n"}

\* . of the regular expressions (re.MULTILINE without re.DOTALL): anything
\* but a newline.
IsDot(c) == c # "\n"

Slice(text, from, to) == [j \in 1..(to - from + 1) |-> text[from + j - 1]]

\* label\s+(.*?)\s matched with the label at position p.  A candidate is
\* <<k, e>>: \s+ takes the k characters after the label, the group is
\* text[p+k+1 .. e-1] and the closing \s is text[e].
ValueCandidates(text, label, p) ==
    LET Ks == {k \in 1..(Len(text) - p) :
                  \A i \in (p + 1)..(p + k) : IsSpace(text[i])}
        Es(k) == {e \in (p + k + 1)..Len(text) :
                  /\ IsSpace(text[e])
                  /\ \A i \in (p + k + 1)..(e - 1) : IsDot(text[i])}
    IN  IF text[p] # label THEN {}
        ELSE UNION {{<<k, e>> : e \in Es(k)} : k \in Ks}

\* The candidate the backtracking matcher finds first: \s+ is greedy (the
\* longest run it can keep), (.*?) is lazy (the shortest group).
ValueFirst(cands) ==
    CHOOSE c \in cands :
        \A d \in cands : \/ c[1] > d[1]
                       \/ (c[1] = d[1] /\ c[2] <= d[2])

\* re.search(label + '\s+(.*?)\s', text): the leftmost position with a
\* match; Str(group(1)) or None.
SearchValue(text, label) ==
    LET starts == {p \in 1..Len(text) : ValueCandidates(text, label, p) # {}}
    IN  IF starts = {} THEN None
        ELSE LET p == CHOOSE q \in starts : \A r \in starts : q <= r
                 c == ValueFirst(ValueCandidates(text, label, p))
             IN  Str(Slice(text, p + c[1] + 1, c[2] - 1))

\* Latency:.*?jitter:\s+(.*?)ms matched with "Latency:" at position p.  A
\* candidate is <<j, k, e>>: "jitter:" is text[j], \s+ takes the k
\* characters after it, the group is text[j+k+1 .. e-1] and "ms" is text[e].
JitterCandidates(text, p) ==
    LET Js == {j \in (p + 1)..Len(text) :
                  /\ text[j] = "jitter:"
                  /\ \A i \in (p + 1)..(j - 1) : IsDot(text[i])}
        Ks(j) == {k \in 1..(Len(text) - j) :
                  \A i \in (j + 1)..(j + k) : IsSpace(text[i])}
        Es(j, k) == {e \in (j + k + 1)..Len(text) :
                  /\ text[e] = "ms"
                  /\ \A i \in (j + k + 1)..(e - 1) : IsDot(text[i])}
    IN  IF text[p] # "Latency:" THEN {}
        ELSE UNION {UNION {{<<j, k, e>> : e \in Es(j, k)} : k \in Ks(j)} : j \in Js}

\* .*? is lazy (the nearest "jitter:"), \s+ greedy, (.*?) lazy.
JitterFirst(cands) ==
    CHOOSE c \in cands :
        \A d \in cands : \/ c[1] < d[1]
                       \/ (c[1] = d[1] /\ c[2] > d[2])
                       \/ (c[1] = d[1] /\ c[2] = d[2] /\ c[3] <= d[3])

SearchJitter(text) ==
    LET starts == {p \in 1..Len(text) : JitterCandidates(text, p) # {}}
    IN  IF starts = {} THEN None
        ELSE LET p == CHOOSE q \in starts : \A r \in starts : q <= r
                 c == JitterFirst(JitterCandidates(text, p))
             IN  Str(Slice(text, c[1] + c[2] + 1, c[3] - 1))

\* float(s): surrounding whitespace is ignored, what is left has to be one
\* number; anything else raises ValueError.
NumberLexemes == {"12.3", "50.2", "10.0", "1.1", "5.4", "93.5", "20.7", "0.3", "5.1"}

Tenths(lexeme) ==
    CASE lexeme = "12.3" -> 123
      [] lexeme = "50.2" -> 502
      [] lexeme = "10.0" -> 100
      [] lexeme = "1.1" -> 11
      [] lexeme = "5.4" -> 54
      [] lexeme = "93.5" -> 935
      [] lexeme = "20.7" -> 207
      [] lexeme = "0.3" -> 3
      [] lexeme = "5.1" -> 51

RECURSIVE Strip(_)
Strip(s) ==
    IF s = <<>> THEN s
    ELSE IF IsSpace(Head(s)) THEN Strip(Tail(s))
    ELSE IF IsSpace(s[Len(s)]) THEN Strip(SubSeq(s, 1, Len(s) - 1))
    ELSE s

ValueError(s) == [type |-> "ValueError", val |-> s]

float(s) ==
    LET t == Strip(s)
    IN  IF Len(t) = 1 /\ t[1] \in NumberLexemes
        THEN PyFloat(Tenths(t[1]))
        ELSE ValueError(s)

\* Lines 37-52 without the comparison with "FAILED".
FieldValueNoFailedCheck(match) ==
    IF ~IsNone(match) THEN float(match.val) ELSE PyFloat(-10)

\* Lines 37-52 if a pattern that finds nothing failed the parse.
FieldValueNoMatchFails(match) ==
    IF IsNone(match) THEN ValueError(<<>>)
    ELSE IF match.val # <<"FAILED">> THEN float(match.val)
    ELSE PyFloat(-10)

\* Lines 37-40 (and 41-52 for the other fields): the match of one field to
\* its float, -1.0 when there is no match or the group is FAILED.
FieldValue(match) ==
    IF ~IsNone(match) /\ match.val # <<"FAILED">>
    THEN float(match.val)
    ELSE PyFloat(-10)

\* The four patterns of lines 30-33, each searched with its own label.
MatchesSwapped(output) ==
    [ping |-> SearchValue(output, "Latency:"),
     download |-> SearchValue(output, "Upload:"),
     upload |-> SearchValue(output, "Download:"),
     jitter |-> SearchJitter(output)]

\* The four re.search calls of lines 30-33.
Matches(output) ==
    [ping |-> SearchValue(output, "Latency:"),
     download |-> SearchValue(output, "Download:"),
     upload |-> SearchValue(output, "Upload:"),
     jitter |-> SearchJitter(output)]

\* parse_speed_test_output if each float() had its own except clause: a
\* token that is no number becomes -1.0 and the rest is kept.
ParseLenient(output) ==
    LET m == Matches(output)
        v == [f \in FieldNames |-> FieldValue(m[f])]
    IN  Dict([f \in FieldNames |->
                 IF v[f].type = "ValueError" THEN PyFloat(-10) ELSE v[f]])

\* parse_speed_test_output: the dict of the four floats, or None when a
\* float() raised ValueError (which is logged).
parse_speed_test_output(output) ==
    LET m == Matches(output)
        v == [f \in FieldNames |-> FieldValue(m[f])]
    IN  IF \E f \in FieldNames : v[f].type = "ValueError"
        THEN None
        ELSE Dict(v)

\* ------------------------------------------------------------------------
\* The reports the child process can print.  A report is described by what
\* it shows for each field and by its layout, and Render writes it out.

Shows == {"number", "FAILED", "junk", "absent"}

\* "plain" and "long" are the layouts a report with faults comes in;
\* "reversed" prints the lines in the opposite order, other numbers, and the
\* download rate on the line after its label.
Layouts == {"plain", "long"}

AllLayouts == Layouts \cup {"reversed"}

\* Fields that do not show a number.  The jitter is part of the latency
\* line: without the line there is no jitter, and that counts once.
Faults(d) ==
    Cardinality({f \in FieldNames :
        /\ d[f] # "number"
        /\ ~(f = "jitter" /\ d["ping"] = "absent")})

\* Up to MaxFaults faults in the plain layout, at most one in the long
\* layout, none in the reversed one.
Descriptors ==
    {d \in {[ping |-> p, download |-> dl, upload |-> ul, jitter |-> j, layout |-> l] :
                p \in Shows, dl \in Shows, ul \in Shows, j \in Shows, l \in AllLayouts} :
        /\ d["ping"] = "absent" => d["jitter"] = "absent"
        /\ Faults(d) <= (CASE d["layout"] = "plain" -> MaxFaults
                            [] d["layout"] = "long" -> (IF MaxFaults = 0 THEN 0 ELSE 1)
                            [] OTHER -> 0)}

\* The number a layout prints for a field.
NumberOf(layout, f) ==
    CASE layout = "plain" ->
            (CASE f = "ping" -> "12.3"
               [] f = "download" -> "50.2"
               [] f = "upload" -> "10.0"
               [] f = "jitter" -> "1.1")
      [] layout = "long" ->
            (CASE f = "ping" -> "5.4"
               [] f = "download" -> "93.5"
               [] f = "upload" -> "20.7"
               [] f = "jitter" -> "0.3")
      [] layout = "reversed" ->
            (CASE f = "ping" -> "50.2"
               [] f = "download" -> "1.1"
               [] f = "upload" -> "12.3"
               [] f = "jitter" -> "10.0")

Lexeme(d, f) ==
    CASE d[f] = "number" -> NumberOf(d["layout"], f)
      [] d[f] = "FAILED" -> "FAILED"
      [] d[f] = "junk" -> "abc"

\* "Latency:  12.3 ms  (jitter: 1.1ms)",
\* "Idle Latency: 5.4 ms (jitter: 0.3ms, low: 5.1ms)" and
\* "Latency: 50.2 ms jitter: 10.0ms".
LatencyLine(d) ==
    IF d["ping"] = "absent" THEN <<>>
    ELSE IF d["layout"] = "plain"
    THEN <<"Latency:", " ", " ", Lexeme(d, "ping"), " ", "ms">>
         \o (IF d["jitter"] = "absent" THEN <<>>
             ELSE <<" ", " ", "(", "jitter:", " ", Lexeme(d, "jitter"), "ms", ")">>)
         \o <<"\n">>
    ELSE IF d["layout"] = "reversed"
    THEN <<"Latency:", " ", Lexeme(d, "ping"), " ", "ms">>
         \o (IF d["jitter"] = "absent" THEN <<>>
             ELSE <<" ", "jitter:", " ", Lexeme(d, "jitter"), "ms">>)
         \o <<"\n">>
    ELSE <<"Idle", " ", "Latency:", " ", Lexeme(d, "ping"), " ", "ms">>
         \o (IF d["jitter"] = "absent" THEN <<>>
             ELSE <<" ", "(", "jitter:", " ", Lexeme(d, "jitter"), "ms", ",",
                    " ", "low:", " ", "5.1", "ms", ")">>)
         \o <<"\n">>

\* "Download:  50.2 Mbps", "Download: 93.5 Mbps" and "Download:" with
\* "1.1 Mbps" on the next line.
RateLine(d, f, label) ==
    IF d[f] = "absent" THEN <<>>
    ELSE IF d["layout"] = "plain"
    THEN <<label, " ", " ", Lexeme(d, f), " ", "Mbps", "\n">>
    ELSE IF d["layout"] = "reversed" /\ f = "download"
    THEN <<label, "\n", Lexeme(d, f), " ", "Mbps", "\n">>
    ELSE <<label, " ", Lexeme(d, f), " ", "Mbps", "\n">>

Render(d) ==
    IF d["layout"] = "reversed"
    THEN RateLine(d, "upload", "Upload:") \o RateLine(d, "download", "Download:")
                                         \o LatencyLine(d)
    ELSE LatencyLine(d) \o RateLine(d, "download", "Download:")
                        \o RateLine(d, "upload", "Upload:")

Reports == {Render(d) : d \in Descriptors}

\* Output that is no report of the tool: nothing at all, a blank line, a
\* report cut off inside its last value, a report that leaves a space
\* between the jitter and its unit, and a lone download line without a
\* number.
EmptyText == <<>>

BlankText == <<"\n">>

CutText == <<"Latency:", " ", " ", "12.3", " ", "ms", "\n", "Upload:", " ", " ", "10.0">>

GapText == <<"Latency:", " ", "12.3", " ", "ms", " ", "jitter:", " ", "1.1", " ", "ms", "\n">>

JunkText == <<"Download:", " ", "abc", " ", "Mbps", "\n">>

OtherTexts == {EmptyText, BlankText, CutText, GapText, JunkText}

Stdouts == Reports \cup OtherTexts

\* What a child process leaves behind: the bytes of its standard output
\* (which may not decode) and its exit status.  A process that exits with a
\* failure has printed nothing, part of a report, or a whole report.
Bytes(text) == [decodable |-> TRUE, text |-> text]

Undecodable == [decodable |-> FALSE, text |-> <<>>]

ScenarioA ==
    Render([ping |-> "number", download |-> "number", upload |-> "number",
            jitter |-> "number", layout |-> "plain"])

ChildResults ==
    {[stdout |-> Bytes(t), returncode |-> 0] : t \in Stdouts}
    \cup {[stdout |-> Bytes(t), returncode |-> 1] : t \in {EmptyText, CutText, ScenarioA}}
    \cup {[stdout |-> Undecodable, returncode |-> 0]}

\* ------------------------------------------------------------------------
\* The program.

\* interfaces of main.
interfaces == <<"eth0", "wlan0">>

N == Len(interfaces)

VARIABLES
    pc,               \* where the program is: "import", "main", "gather",
                      \* "loop", "point", "write", "done", "KeyError", "raised"
    environ,          \* whether INFLUXDB_USERNAME and INFLUXDB_PASSWORD are set
    task,             \* per interface: the state of its run_speed_test coroutine
    completionOrder,  \* the interfaces in the order their probes completed
    outputs,          \* outputs of main, <<>> before the join
    idx,              \* position of the loop of main in enumerate(outputs)
    speed_data,       \* speed_data of main
    parsed,           \* the calls of parse_speed_test_output so far
    writeCalls,       \* the points write_speed_data was called with
    storeWrites,      \* the calls of write_api.write and how each ended
    log               \* internet_speed.log

vars == <<pc, environ, task, completionOrder, outputs, idx, speed_data, parsed,
          writeCalls, storeWrites, log>>

LogEntry(level, msg) == [level |-> level, msg |-> msg]

NewTask == [st |-> "new", result |-> None, returncode |-> 0]

Init ==
    /\ pc = "import"
    /\ environ \in BOOLEAN
    /\ task = [i \in 1..N |-> NewTask]
    /\ completionOrder = <<>>
    /\ outputs = <<>>
    /\ idx = 0
    /\ speed_data = None
    /\ parsed = <<>>
    /\ writeCalls = <<>>
    /\ storeWrites = <<>>
    /\ log = <<>>

\* Line 65: os.environ[...] raises KeyError when a variable is not set, and
\* the script ends before main is ever called.
LoadModule ==
    /\ pc = "import"
    /\ pc' = IF environ THEN "main" ELSE "KeyError"
    /\ UNCHANGED <<environ, task, completionOrder, outputs, idx, speed_data,
                   parsed, writeCalls, storeWrites, log>>

\* Lines 80-86: one coroutine per interface, all handed to asyncio.gather.
StartProbes ==
    /\ pc = "main"
    /\ pc' = "gather"
    /\ task' = [i \in 1..N |-> [NewTask EXCEPT !.st = "launching"]]
    /\ UNCHANGED <<environ, completionOrder, outputs, idx, speed_data, parsed,
                   writeCalls, storeWrites, log>>

\* Lines 24-26 without the except clause: the exception leaves
\* run_speed_test and the coroutine never returns a value.
ProbeRaises(t) == [t EXCEPT !.st = "raised"]

\* Lines 24-26: what run_speed_test does with an exception.
ProbeFailed(t) == [t EXCEPT !.st = "returned", !.result = None]

ProbeErrorLog == <<LogEntry("ERROR", "Error running speedtest")>>

\* Lines 17-20, the subprocess starts.
LaunchOk(i) ==
    /\ pc = "gather"
    /\ task[i].st = "launching"
    /\ task' = [task EXCEPT ![i].st = "communicating"]
    /\ UNCHANGED <<pc, environ, completionOrder, outputs, idx, speed_data,
                   parsed, writeCalls, storeWrites, log>>

\* Lines 17-20 raise (no such binary, no permission), lines 24-26 catch.
LaunchFail(i) ==
    /\ pc = "gather"
    /\ task[i].st = "launching"
    /\ task' = [task EXCEPT ![i] = ProbeFailed(@)]
    /\ completionOrder' = Append(completionOrder, i)
    /\ log' = log \o ProbeErrorLog
    /\ UNCHANGED <<pc, environ, outputs, idx, speed_data, parsed, writeCalls,
                   storeWrites>>

\* Lines 22-23: communicate() returns and stdout is decoded; bytes that do
\* not decode raise UnicodeDecodeError, which lines 24-26 catch.  The exit
\* status is not looked at.
CommunicateReturn(i, r) ==
    /\ pc = "gather"
    /\ task[i].st = "communicating"
    /\ IF r.stdout.decodable
       THEN /\ task' = [task EXCEPT ![i] = [st |-> "returned",
                                            result |-> Str(r.stdout.text),
                                            returncode |-> r.returncode]]
            /\ log' = log
       ELSE /\ task' = [task EXCEPT ![i] = ProbeFailed([@ EXCEPT !.returncode = r.returncode])]
            /\ log' = log \o ProbeErrorLog
    /\ completionOrder' = Append(completionOrder, i)
    /\ UNCHANGED <<pc, environ, outputs, idx, speed_data, parsed, writeCalls,
                   storeWrites>>

\* Line 22 raises, lines 24-26 catch.
CommunicateRaise(i) ==
    /\ pc = "gather"
    /\ task[i].st = "communicating"
    /\ task' = [task EXCEPT ![i] = ProbeFailed(@)]
    /\ completionOrder' = Append(completionOrder, i)
    /\ log' = log \o ProbeErrorLog
    /\ UNCHANGED <<pc, environ, outputs, idx, speed_data, parsed, writeCalls,
                   storeWrites>>

\* Line 86 if the results that are None were filtered out.
GatherDropsAbsent(t) ==
    LET all == [i \in 1..N |-> t[i].result]
    IN  SelectSeq(all, LAMBDA r : ~IsNone(r))

\* Line 86 if one failed probe made gather give up on all of them.
GatherFailsTogether(t) ==
    IF \E i \in 1..N : IsNone(t[i].result)
    THEN [i \in 1..N |-> None]
    ELSE [i \in 1..N |-> t[i].result]

\* Line 86 if the results came in the order the coroutines completed in
\* (as asyncio.as_completed gives them).
GatherByCompletion(t) == [k \in 1..N |-> t[completionOrder[k]].result]

\* Line 86: asyncio.gather returns the results in the order of the
\* awaitables it was given, whatever the order they completed in.
GatherResults(t) == [i \in 1..N |-> t[i].result]

\* Line 89 if the loop went through the outputs backwards.
EnumerateReversed(outs) ==
    [k \in 1..Len(outs) |-> <<Len(outs) - k + 1, outs[Len(outs) - k + 1]>>]

\* enumerate(outputs) of line 89, counting from 1: the pairs <<i, output>>.
Enumerate(outs) == [k \in 1..Len(outs) |-> <<k, outs[k]>>]

\* The for loop of line 89 standing at position k.
LoopAt(k, outs) == IF k <= Len(Enumerate(outs)) THEN "loop" ELSE "done"

\* Line 86 if main did not wait for the coroutines: it goes on with what
\* they have returned so far.
JoinEarly ==
    /\ pc = "gather"
    /\ outputs' = GatherResults(task)
    /\ idx' = 1
    /\ pc' = LoopAt(1, outputs')
    /\ UNCHANGED <<environ, task, completionOrder, speed_data, parsed,
                   writeCalls, storeWrites, log>>

\* Line 86 if main went on as soon as one coroutine had returned
\* (asyncio.wait with FIRST_COMPLETED, or a timeout on the others).
JoinOnFirst ==
    /\ pc = "gather"
    /\ \E i \in 1..N : task[i].st = "returned"
    /\ outputs' = GatherResults(task)
    /\ idx' = 1
    /\ pc' = LoopAt(1, outputs')
    /\ UNCHANGED <<environ, task, completionOrder, speed_data, parsed,
                   writeCalls, storeWrites, log>>

\* Line 86, the join: every coroutine has returned.
Join ==
    /\ pc = "gather"
    /\ \A i \in 1..N : task[i].st = "returned"
    /\ outputs' = GatherResults(task)
    /\ idx' = 1
    /\ pc' = LoopAt(1, outputs')
    /\ UNCHANGED <<environ, task, completionOrder, speed_data, parsed,
                   writeCalls, storeWrites, log>>

\* "if output" of line 90: None and the empty string are false.
Truthy(x) == ~IsNone(x) /\ x.val # <<>>

AllFailed == Dict([f \in FieldNames |-> PyFloat(-10)])

\* Lines 93-99 without the fallback: speed_data stays None.
NoFallback == None

\* Lines 94-99.
ParseFailedRecord == AllFailed

\* Lines 101-106 with 0.0 in place of -1.0.
AllZero == Dict([f \in FieldNames |-> PyFloat(0)])

\* Lines 101-106.
ProbeFailedRecord == AllFailed

ParseErrorLog == <<LogEntry("ERROR", "Failed to parse speedtest output")>>

\* parse_speed_test_output and its four matches over the texts a probe can
\* return, worked out once.
ParseTable == [t \in Stdouts |-> parse_speed_test_output(t)]

MatchTable == [t \in Stdouts |-> Matches(t)]

\* Lines 90-106 for the pair the loop stands at.
Normalize ==
    /\ pc = "loop"
    /\ LET output == Enumerate(outputs)[idx][2]
           i == Enumerate(outputs)[idx][1]
       IN  IF Truthy(output)
           THEN LET ret == ParseTable[output.val]
                IN  /\ parsed' = Append(parsed, [interface |-> i,
                                                 output |-> output.val,
                                                 ret |-> ret])
                    /\ log' = IF IsNone(ret) THEN log \o ParseErrorLog ELSE log
                    /\ speed_data' = IF IsNone(ret) THEN ParseFailedRecord ELSE ret
           ELSE /\ speed_data' = ProbeFailedRecord
                /\ UNCHANGED <<parsed, log>>
    /\ pc' = "point"
    /\ UNCHANGED <<environ, task, completionOrder, outputs, idx, writeCalls,
                   storeWrites>>

\* Line 109 if the download and upload fields took each other's value.
PointSwapped(interface, fields) ==
    [measurement |-> "internet_speed",
     tags |-> [host |-> "raspberrypi", interface |-> interface],
     fields |-> [fields EXCEPT !["download"] = fields["upload"],
                               !["upload"] = fields["download"]]]

\* Line 109: the point; the time stamp is left out.
Point(interface, fields) ==
    [measurement |-> "internet_speed",
     tags |-> [host |-> "raspberrypi", interface |-> interface],
     fields |-> fields]

\* speed_data["ping"] ... speed_data["jitter"] of line 109 can be read.
Subscriptable(x) == x.type = "dict" /\ FieldNames \subseteq DOMAIN x.val

\* Lines 109-110 if the write were started and not waited for (handed to an
\* executor or a task): the loop goes on while the store still has the point.
BuildPointNoWait ==
    /\ pc = "point"
    /\ Subscriptable(speed_data)
    /\ LET i == Enumerate(outputs)[idx][1]
           data_point == Point(interfaces[i],
                               [f \in FieldNames |-> speed_data.val[f]])
       IN  /\ writeCalls' = Append(writeCalls, data_point)
           /\ log' = Append(log, LogEntry("INFO", "Attempting to write"))
    /\ pc' = IF idx < Len(outputs) THEN "loop" ELSE "write"
    /\ idx' = IF idx < Len(outputs) THEN idx + 1 ELSE idx
    /\ UNCHANGED <<environ, task, completionOrder, outputs, speed_data,
                   parsed, storeWrites>>

\* Lines 109-110 and line 70: the point is built and write_speed_data is
\* called with it.
BuildPoint ==
    /\ pc = "point"
    /\ IF Subscriptable(speed_data)
       THEN LET i == Enumerate(outputs)[idx][1]
                data_point == Point(interfaces[i],
                                    [f \in FieldNames |-> speed_data.val[f]])
            IN  /\ writeCalls' = Append(writeCalls, data_point)
                /\ log' = Append(log, LogEntry("INFO", "Attempting to write"))
                /\ pc' = "write"
       ELSE /\ pc' = "raised"
            /\ UNCHANGED <<writeCalls, log>>
    /\ UNCHANGED <<environ, task, completionOrder, outputs, idx, speed_data,
                   parsed, storeWrites>>

\* Where main is after write_speed_data returned at position k.
AfterWrite(k, outs) == [pc |-> LoopAt(k + 1, outs), idx |-> k + 1]

\* Lines 74-75 without the except clause: the exception leaves main.
WriteErrorPropagates(k, outs) == [pc |-> "raised", idx |-> k]

\* Lines 74-75: the exception is logged and write_speed_data returns.
WriteErrorNext(k, outs) == AfterWrite(k, outs)

\* Lines 71-73: the store takes the point.
WriteReturn ==
    /\ pc = "write"
    /\ storeWrites' = Append(storeWrites, [point |-> writeCalls[Len(writeCalls)],
                                           ok |-> TRUE])
    /\ log' = Append(log, LogEntry("INFO", "Speed data written"))
    /\ pc' = AfterWrite(idx, outputs).pc
    /\ idx' = AfterWrite(idx, outputs).idx
    /\ UNCHANGED <<environ, task, completionOrder, outputs, speed_data, parsed,
                   writeCalls>>

\* Lines 71-75 if the success entry of line 73 stood after the try
\* statement: a write that raised would log the error and then the success.
WriteRaiseLogsBoth ==
    /\ pc = "write"
    /\ storeWrites' = Append(storeWrites, [point |-> writeCalls[Len(writeCalls)],
                                           ok |-> FALSE])
    /\ log' = log \o <<LogEntry("ERROR", "Error writing speed data"),
                        LogEntry("INFO", "Speed data written")>>
    /\ pc' = WriteErrorNext(idx, outputs).pc
    /\ idx' = WriteErrorNext(idx, outputs).idx
    /\ UNCHANGED <<environ, task, completionOrder, outputs, speed_data, parsed,
                   writeCalls>>

\* Lines 71-72 raise (store not reachable, credentials refused).
WriteRaise ==
    /\ pc = "write"
    /\ storeWrites' = Append(storeWrites, [point |-> writeCalls[Len(writeCalls)],
                                           ok |-> FALSE])
    /\ log' = Append(log, LogEntry("ERROR", "Error writing speed data"))
    /\ pc' = WriteErrorNext(idx, outputs).pc
    /\ idx' = WriteErrorNext(idx, outputs).idx
    /\ UNCHANGED <<environ, task, completionOrder, outputs, speed_data, parsed,
                   writeCalls>>

Next ==
    \/ LoadModule
    \/ StartProbes
    \/ \E i \in 1..N : LaunchOk(i)
    \/ \E i \in 1..N : LaunchFail(i)
    \/ \E i \in 1..N : \E r \in ChildResults : CommunicateReturn(i, r)
    \/ \E i \in 1..N : CommunicateRaise(i)
    \/ Join
    \/ Normalize
    \/ BuildPoint
    \/ WriteReturn
    \/ WriteRaise

Spec == Init /\ [][Next]_vars

\* The steps of the coroutine run_speed_test(interfaces[i]).
ProbeStep(i) ==
    \/ LaunchOk(i)
    \/ LaunchFail(i)
    \/ \E r \in ChildResults : CommunicateReturn(i, r)
    \/ CommunicateRaise(i)

\* The call write_api.write of lines 71-72 comes back, one way or the other.
StoreStep == WriteReturn \/ WriteRaise

\* The steps main takes itself, between its awaits.
MainStep == LoadModule \/ StartProbes \/ Join \/ Normalize \/ BuildPoint

\* The program when the event loop of line 114 keeps running what can run:
\* every child process ends or its start or its communicate raises, every
\* store write returns or raises, and main goes on when it is not waiting.
FairSpec ==
    /\ Spec
    /\ \A i \in 1..N : WF_vars(ProbeStep(i))
    /\ WF_vars(StoreStep)
    /\ WF_vars(MainStep)

\* ------------------------------------------------------------------------
\* Properties.

\* The positions in a sequence of points that carry the tag of interface i.
TaggedAt(points, i) ==
    {k \in 1..Len(points) : points[k].tags.interface = interfaces[i]}

AllMinusOne(fields) == \A f \in FieldNames : fields[f] = PyFloat(-10)

\* What lines 90-106 are to make of one result of run_speed_test.
ExpectedFields(result) ==
    IF IsNone(result) \/ result.val = <<>> THEN [f \in FieldNames |-> PyFloat(-10)]
    ELSE IF IsNone(ParseTable[result.val]) THEN [f \in FieldNames |-> PyFloat(-10)]
    ELSE ParseTable[result.val].val

\* C1: in every completed run write_speed_data has been called exactly once
\* for each configured interface, whatever the probes, the parser and the
\* store did; and at no time has it been called twice for an interface.
C1_OneWriteCallPerInterface ==
    /\ \A i \in 1..N : Cardinality(TaggedAt(writeCalls, i)) <= 1
    /\ pc = "done" => \A i \in 1..N : Cardinality(TaggedAt(writeCalls, i)) = 1

\* A completed run in which one probe gave nothing, the other gave text the
\* parser gave up on, and a store write raised.
C1_Witness ==
    /\ pc = "done"
    /\ IsNone(task[1].result)
    /\ \E k \in 1..Len(parsed) : IsNone(parsed[k].ret)
    /\ \E k \in 1..Len(storeWrites) : ~storeWrites[k].ok
    /\ \E k \in 1..Len(storeWrites) : storeWrites[k].ok

\* C2: the k-th call of write_speed_data is for the k-th configured
\* interface, in whatever order the probes completed.
C2_WritesFollowListOrder ==
    \A k \in 1..Len(writeCalls) : writeCalls[k].tags.interface = interfaces[k]

\* wlan0 completed before eth0, and both points have been handed over.
C2_Witness ==
    /\ completionOrder = <<2, 1>>
    /\ Len(writeCalls) = 2
    /\ writeCalls[1].fields # writeCalls[2].fields

\* C3: a probe that failed does not end the run and does not touch the
\* other interfaces: once the loop runs every probe has returned, every
\* point written carries what its own interface's probe returned, and in a
\* completed run every interface has its point, all -1.0 for the failed one.
C3_FailedProbeIsConfined ==
    /\ pc # "raised"
    /\ pc \in {"loop", "point", "write", "done"} =>
           \A i \in 1..N : task[i].st = "returned"
    /\ \A i \in 1..N : \A k \in TaggedAt(writeCalls, i) :
           /\ writeCalls[k].fields = ExpectedFields(task[i].result)
           /\ IsNone(task[i].result) => AllMinusOne(writeCalls[k].fields)
    /\ pc = "done" => \A i \in 1..N : TaggedAt(writeCalls, i) # {}

\* The probe of wlan0 failed before the probe of eth0 returned
\* its report; the run completed with the measurements of eth0 written.
C3_Witness ==
    /\ pc = "done"
    /\ completionOrder = <<2, 1>>
    /\ IsNone(task[2].result)
    /\ task[1].result = Str(ScenarioA)
    /\ \E k \in TaggedAt(writeCalls, 1) : ~AllMinusOne(writeCalls[k].fields)
    /\ \E k \in TaggedAt(writeCalls, 2) : AllMinusOne(writeCalls[k].fields)

\* C4: for an interface whose probe returned None the point has all four
\* fields -1.0 and the parser has not been called.
C4_AbsentProbeGivesAllMinusOne ==
    \A i \in 1..N : IsNone(task[i].result) =>
        /\ \A k \in TaggedAt(writeCalls, i) :
               \A f \in FieldNames : writeCalls[k].fields[f] = PyFloat(-10)
        /\ \A k \in 1..Len(parsed) : parsed[k].interface # i

\* eth0's probe returned None and its point is written; wlan0's output went
\* through the parser.
C4_Witness ==
    /\ task[1].st = "returned"
    /\ IsNone(task[1].result)
    /\ TaggedAt(writeCalls, 1) # {}
    /\ \E k \in 1..Len(parsed) : parsed[k].interface = 2

IsRecordOfFloats(x) ==
    /\ x.type = "dict"
    /\ DOMAIN x.val = FieldNames
    /\ \A f \in FieldNames : x.val[f].type = "float"

\* C5: the record that reaches the construction of the point is a dict of
\* exactly ping, download, upload and jitter, each a float, never None and
\* never short of a field; so is every point write_speed_data was given.
C5_RecordIsComplete ==
    /\ pc # "raised"
    /\ pc \in {"point", "write"} => IsRecordOfFloats(speed_data)
    /\ \A k \in 1..Len(writeCalls) : IsRecordOfFloats(Dict(writeCalls[k].fields))

\* A record on its way to the point in which the parser filled one field
\* with -1.0 and another with a measurement.
C5_Witness ==
    /\ pc = "point"
    /\ IsRecordOfFloats(speed_data)
    /\ speed_data.val["upload"] = PyFloat(-10)
    /\ speed_data.val["ping"] # PyFloat(-10)

\* The number a report described by d shows for field f, as a float.
ShownNumber(d, f) == PyFloat(Tenths(NumberOf(d["layout"], f)))

\* d shows FAILED for f and a number for each other field.
OnlyFailed(d, f) ==
    /\ d[f] = "FAILED"
    /\ \A g \in FieldNames \ {f} : d[g] = "number"

\* The reports with FAILED for one field f and numbers for the others.
FailedCases ==
    {c \in {[d |-> d, f |-> f, text |-> Render(d)] :
                d \in Descriptors, f \in FieldNames} : OnlyFailed(c.d, c.f)}

\* C6: for a report that shows FAILED for one field and numbers for the
\* other three, the parser returns a record with -1.0 for that field and
\* the numbers of the text for the others.
C6_FailedFieldAloneIsMinusOne ==
    \A k \in 1..Len(parsed) : \A c \in FailedCases :
        parsed[k].output = c.text =>
            /\ parsed[k].ret.type = "dict"
            /\ \A g \in FieldNames :
                   parsed[k].ret.val[g] =
                       IF g = c.f THEN PyFloat(-10) ELSE ShownNumber(c.d, g)

\* One run parsed a report with FAILED for the jitter and one with FAILED
\* for the download rate.
C6_Witness ==
    /\ Len(parsed) = 2
    /\ \E c \in FailedCases : c.f = "jitter" /\ parsed[1].output = c.text
    /\ \E c \in FailedCases : c.f = "download" /\ parsed[2].output = c.text

\* The label of f occurs nowhere in the text; for the jitter, no "jitter:"
\* occurs after a "Latency:".
LabelAbsent(text, f) ==
    CASE f = "ping" -> \A p \in 1..Len(text) : text[p] # "Latency:"
      [] f = "download" -> \A p \in 1..Len(text) : text[p] # "Download:"
      [] f = "upload" -> \A p \in 1..Len(text) : text[p] # "Upload:"
      [] f = "jitter" -> \A p \in 1..Len(text) : text[p] = "Latency:" =>
                             \A j \in (p + 1)..Len(text) : text[j] # "jitter:"

\* The fields whose label is absent, for each text a probe can return.
AbsentLabels == [t \in Stdouts |-> {f \in FieldNames : LabelAbsent(t, f)}]

\* The token a pattern extracted is neither a number nor FAILED.
Malformed(match) ==
    /\ ~IsNone(match)
    /\ match.val # <<"FAILED">>
    /\ float(match.val).type = "ValueError"

\* C7 as claimed: whenever the label of a field does not occur in the
\* output, the parser returns a record, with -1.0 for that field.
C7_Original ==
    \A k \in 1..Len(parsed) : \A f \in AbsentLabels[parsed[k].output] :
        /\ parsed[k].ret.type = "dict"
        /\ parsed[k].ret.val[f] = PyFloat(-10)

\* C7: whenever the label of a field does not occur in the output, the
\* parser returns a record with -1.0 for that field, unless the token of
\* another field is neither a number nor FAILED; then it returns None.  The
\* point written has -1.0 for the field either way.
C7_AbsentLabelIsMinusOne ==
    \A k \in 1..Len(parsed) : \A f \in AbsentLabels[parsed[k].output] :
        /\ IF parsed[k].ret.type = "dict"
           THEN parsed[k].ret.val[f] = PyFloat(-10)
           ELSE /\ IsNone(parsed[k].ret)
                /\ \E g \in FieldNames \ {f} :
                       Malformed(MatchTable[parsed[k].output][g])
        /\ \A w \in TaggedAt(writeCalls, parsed[k].interface) :
               writeCalls[w].fields[f] = PyFloat(-10)

\* A report without an upload line gave a record with the other three
\* numbers, and a lone download line without a number gave None.
C7_Witness ==
    /\ Len(parsed) = 2
    /\ Len(writeCalls) = 2
    /\ LabelAbsent(parsed[1].output, "upload")
    /\ parsed[1].ret.type = "dict"
    /\ \A g \in FieldNames \ {"upload"} : parsed[1].ret.val[g] # PyFloat(-10)
    /\ parsed[2].output = JunkText
    /\ IsNone(parsed[2].ret)

\* The reports that show junk for a field.
JunkReports ==
    {Render(d) : d \in {e \in Descriptors : \E f \in FieldNames : e[f] = "junk"}}

\* C8: when a token the parser extracted is neither a number nor FAILED
\* (as in a report that shows junk for a field), the parser returns None
\* and the point written for the interface has all four fields -1.0.
C8_MalformedTokenFailsParse ==
    \A k \in 1..Len(parsed) :
        (\/ \E f \in FieldNames : Malformed(MatchTable[parsed[k].output][f])
         \/ parsed[k].output \in JunkReports) =>
            /\ IsNone(parsed[k].ret)
            /\ \A w \in TaggedAt(writeCalls, parsed[k].interface) :
                   AllMinusOne(writeCalls[w].fields)

\* "Latency:  abc ms" in a report whose other three values are numbers:
\* the point is written with four times -1.0.
C8_Witness ==
    /\ Len(parsed) >= 1
    /\ parsed[1].output =
           Render([ping |-> "junk", download |-> "number", upload |-> "number",
                   jitter |-> "number", layout |-> "plain"])
    /\ \E w \in TaggedAt(writeCalls, parsed[1].interface) :
           AllMinusOne(writeCalls[w].fields)

WellFormed(d) == \A f \in FieldNames : d[f] = "number"

\* The reports with a number for each field, one per layout.
WellFormedCases ==
    {[d |-> d, text |-> Render(d)] : d \in {e \in Descriptors : WellFormed(e)}}

\* C9: for a report that shows a number for each of the four fields the
\* parser returns exactly these numbers, each under its own field.
C9_WellFormedReportParsesExactly ==
    \A k \in 1..Len(parsed) : \A c \in WellFormedCases :
        parsed[k].output = c.text =>
            /\ parsed[k].ret.type = "dict"
            /\ \A f \in FieldNames : parsed[k].ret.val[f] = ShownNumber(c.d, f)

\* "Latency:  12.3 ms  (jitter: 1.1ms)", "Download:  50.2 Mbps" and
\* "Upload:  10.0 Mbps" parsed to 12.3, 50.2, 10.0 and 1.1, next to a report
\* in the reversed layout.
C9_Witness ==
    /\ Len(parsed) = 2
    /\ parsed[1].output = ScenarioA
    /\ parsed[1].ret = Dict([ping |-> PyFloat(123), download |-> PyFloat(502),
                             upload |-> PyFloat(100), jitter |-> PyFloat(11)])
    /\ \E c \in WellFormedCases :
           c.d["layout"] = "reversed" /\ parsed[2].output = c.text

\* C10: an exception of the store write does not leave write_speed_data;
\* no interface's write is attempted twice, and in a completed run the
\* write of every interface has been attempted, after a failed one too.
C10_WriteErrorIsSwallowed ==
    /\ pc # "raised"
    /\ \A i \in 1..N : Cardinality(TaggedAt([k \in 1..Len(storeWrites) |->
                                                storeWrites[k].point], i)) <= 1
    /\ \A k \in 1..Len(storeWrites) :
           storeWrites[k].point.tags.interface = interfaces[k]
    /\ pc = "done" => Len(storeWrites) = N

\* The write for eth0 raised; the write for wlan0 was attempted after it
\* and went through.
C10_Witness ==
    /\ pc = "done"
    /\ Len(storeWrites) = 2
    /\ ~storeWrites[1].ok
    /\ storeWrites[2].ok

\* C11: a probe whose child process ended with a non-zero exit status has
\* returned None from run_speed_test, the text it printed is never handed to
\* the parser, and the point written for its interface is all -1.0.
C11_AbnormalExitIsAbsent ==
    \A i \in 1..N :
        (task[i].st = "returned" /\ task[i].returncode # 0) =>
            /\ IsNone(task[i].result)
            /\ \A k \in 1..Len(parsed) : parsed[k].interface # i
            /\ \A k \in TaggedAt(writeCalls, i) : AllMinusOne(writeCalls[k].fields)

\* C13: when every probe comes back and every store write comes back, a run
\* that has entered main reaches the end of main, and no exception ever
\* leaves main, whatever failed on the way.
C13_MainTerminates ==
    /\ (pc = "main") ~> (pc = "done")
    /\ [](pc # "raised")

\* main has ended after the probe of eth0 had failed, the output for wlan0
\* had not parsed and the write for eth0 had raised.
C13_Witness ==
    /\ pc = "done"
    /\ IsNone(task[1].result)
    /\ Len(parsed) = 1
    /\ parsed[1].interface = 2
    /\ IsNone(parsed[1].ret)
    /\ ~storeWrites[1].ok
    /\ Len(storeWrites) = N

\* The probes of all configured interfaces have completed, with output or
\* with None.
AllProbesCompleted == \A i \in 1..N : task[i].st = "returned"

\* C14: whenever main holds the joined outputs, normalizes a record, has
\* parsed an output, or has called or finished a store write, the probes of
\* all interfaces have completed.
C14_NothingBeforeJoin ==
    (\/ pc \in {"loop", "point", "write", "done", "raised"}
     \/ outputs # <<>>
     \/ parsed # <<>>
     \/ writeCalls # <<>>
     \/ storeWrites # <<>>) => AllProbesCompleted

\* The first output has been parsed; the probe of wlan0 had completed before
\* the probe of eth0, and both before the parse.
C14_Witness ==
    /\ pc = "point"
    /\ Len(parsed) = 1
    /\ parsed[1].interface = 1
    /\ writeCalls = <<>>
    /\ completionOrder = <<2, 1>>
    /\ AllProbesCompleted

\* The calls of write_api.write that have started and not yet come back.
WritesInProgress == Len(writeCalls) - Len(storeWrites)

\* C15: at most one store write is in progress; the write for the next
\* interface starts only when all earlier ones have returned or raised; and
\* while a write is in progress no probe is still running.
C15_OneWriteAtATime ==
    /\ WritesInProgress \in {0, 1}
    /\ WritesInProgress = 1 <=> pc = "write"
    /\ \A k \in 1..Len(storeWrites) : storeWrites[k].point = writeCalls[k]
    /\ WritesInProgress > 0 => \A i \in 1..N : task[i].st \notin {"launching", "communicating"}

\* The write for wlan0 is in progress; the one for eth0 has come back.
C15_Witness ==
    /\ pc = "write"
    /\ Len(writeCalls) = 2
    /\ Len(storeWrites) = 1
    /\ writeCalls[2].tags.interface = "wlan0"
    /\ storeWrites[1].point.tags.interface = "eth0"

\* The coroutine main created for the interface of a name: line 83 creates
\* them in the order of the list.
ProbeOf(name) == CHOOSE i \in 1..N : interfaces[i] = name

\* C16: after the join the i-th output is what the probe of interfaces[i]
\* returned, whatever the order the probes completed in; and a point tagged
\* with an interface carries the record made from the output of the probe of
\* that interface.
C16_TagMatchesProbe ==
    /\ outputs # <<>> =>
           \A i \in 1..N : outputs[i] = task[ProbeOf(interfaces[i])].result
    /\ \A k \in 1..Len(parsed) :
           Str(parsed[k].output) = task[parsed[k].interface].result
    /\ \A k \in 1..Len(writeCalls) :
           writeCalls[k].fields =
               ExpectedFields(task[ProbeOf(writeCalls[k].tags.interface)].result)

\* The probe of wlan0 completed first; the two probes printed reports with
\* different numbers, and each point carries the numbers of its own probe.
C16_Witness ==
    /\ pc = "done"
    /\ completionOrder = <<2, 1>>
    /\ task[1].result = Str(ScenarioA)
    /\ ~IsNone(task[2].result)
    /\ task[2].result.val # <<>>
    /\ ExpectedFields(task[2].result) # ExpectedFields(task[1].result)
    /\ ~AllMinusOne(ExpectedFields(task[2].result))
    /\ writeCalls[1].tags.interface = "eth0"
    /\ writeCalls[1].fields = ExpectedFields(task[1].result)
    /\ writeCalls[2].tags.interface = "wlan0"
    /\ writeCalls[2].fields = ExpectedFields(task[2].result)

\* C17: as long as the probe of some interface has not completed, no point
\* has been handed to the store or written for any interface, and neither
\* main nor the store can take a step: only the probes still running can.
C17_UnfinishedProbeStallsRun ==
    (\E i \in 1..N : task[i].st \in {"launching", "communicating"}) =>
        /\ pc = "gather"
        /\ writeCalls = <<>>
        /\ storeWrites = <<>>
        /\ parsed = <<>>
        /\ ~ENABLED MainStep
        /\ ~ENABLED StoreStep

\* The probe of eth0 has returned a whole report; the child process of wlan0
\* has not ended, and nothing has been written for eth0.
C17_Witness ==
    /\ pc = "gather"
    /\ task[1].st = "returned"
    /\ task[1].result = Str(ScenarioA)
    /\ task[2].st = "communicating"
    /\ TaggedAt(writeCalls, 1) = {}

\* What lines 90-106 would make of a result if line 90 tested for None
\* instead of for truth: every string, the empty one too, goes to the parser.
FieldsByPresence(result) ==
    IF IsNone(result) THEN [f \in FieldNames |-> PyFloat(-10)]
    ELSE IF IsNone(ParseTable[result.val]) THEN [f \in FieldNames |-> PyFloat(-10)]
    ELSE ParseTable[result.val].val

\* C18: a probe that printed nothing has returned the empty string, not
\* None, and logged no error; main does not parse it and writes all -1.0 for
\* the interface, which is the record the parser makes of the empty text.
\* For every result, the fields written are those a test for None would give.
C18_EmptyOutputSameAsParsed ==
    /\ \A i \in 1..N :
           task[i].result = Str(EmptyText) =>
               /\ ~IsNone(task[i].result)
               /\ \A k \in 1..Len(parsed) : parsed[k].interface # i
               /\ \A k \in TaggedAt(writeCalls, i) :
                      /\ AllMinusOne(writeCalls[k].fields)
                      /\ Dict(writeCalls[k].fields) = ParseTable[EmptyText]
    /\ \A k \in 1..Len(writeCalls) :
           writeCalls[k].fields =
               FieldsByPresence(task[ProbeOf(writeCalls[k].tags.interface)].result)
    /\ Len(SelectSeq(log, LAMBDA e : e = ProbeErrorLog[1])) =
           Cardinality({i \in 1..N : task[i].st = "returned" /\ IsNone(task[i].result)})

\* The child process of eth0 exited with status 0 and printed nothing; no
\* error was logged, nothing was parsed, and all -1.0 was written for eth0.
C18_Witness ==
    /\ task[1].result = Str(EmptyText)
    /\ task[1].returncode = 0
    /\ task[2].result = Str(ScenarioA)
    /\ log = <<LogEntry("INFO", "Attempting to write")>>
    /\ parsed = <<>>
    /\ Len(writeCalls) = 1
    /\ AllMinusOne(writeCalls[1].fields)

\* C19: when the parser was called for an interface and returned a record,
\* the fields of the point handed to the store for that interface are that
\* record, field for field, with the -1.0 the parser put in it; and while
\* main holds the record between the parse and the write, it is that record.
C19_ParsedRecordWrittenUnchanged ==
    /\ \A k \in 1..Len(parsed) :
           parsed[k].ret.type = "dict" =>
               /\ \A w \in TaggedAt(writeCalls, parsed[k].interface) :
                      writeCalls[w].fields = parsed[k].ret.val
               /\ (pc \in {"point", "write"} /\ idx = parsed[k].interface) =>
                      speed_data = parsed[k].ret

\* The report of eth0 had FAILED for the upload rate: the parser returned
\* numbers with upload -1.0, and the point for eth0 carries exactly these.
C19_Witness ==
    /\ Len(parsed) >= 1
    /\ parsed[1].interface = 1
    /\ parsed[1].ret.type = "dict"
    /\ parsed[1].ret.val["upload"] = PyFloat(-10)
    /\ parsed[1].ret.val["download"] = PyFloat(502)
    /\ parsed[1].ret.val["ping"] = PyFloat(123)
    /\ Len(storeWrites) >= 1
    /\ storeWrites[1].point.fields = parsed[1].ret.val

\* The entries write_speed_data puts in the log (lines 70, 73 and 75).
WriteLog ==
    SelectSeq(log, LAMBDA e : e.msg \in {"Attempting to write", "Speed data written",
                                         "Error writing speed data"})

\* The entry that tells how the write came back.
OutcomeEntry(w) ==
    IF w.ok THEN LogEntry("INFO", "Speed data written")
    ELSE LogEntry("ERROR", "Error writing speed data")

\* C20: the log entries of the write attempts come in pairs, in the order of
\* the attempts: an INFO "attempting" entry made before the store is called,
\* then one outcome entry, INFO success if the write returned and ERROR if it
\* raised; an attempt still in progress has only its first entry.
C20_WriteLogOrder ==
    /\ Len(WriteLog) = Len(writeCalls) + Len(storeWrites)
    /\ \A j \in 1..Len(WriteLog) :
           IF j % 2 = 1
           THEN WriteLog[j] = LogEntry("INFO", "Attempting to write")
           ELSE WriteLog[j] = OutcomeEntry(storeWrites[j \div 2])
    /\ pc = "write" => log[Len(log)] = LogEntry("INFO", "Attempting to write")

\* Two attempts: the write for eth0 raised, the one for wlan0 returned.
C20_Witness ==
    /\ pc = "done"
    /\ WriteLog = <<LogEntry("INFO", "Attempting to write"),
                    LogEntry("ERROR", "Error writing speed data"),
                    LogEntry("INFO", "Attempting to write"),
                    LogEntry("INFO", "Speed data written")>>

====
